---- MODULE Spec2Model ----
(***************************************************************************)
(* A model of function_app.py: the HTTP handler split_pdf, the content     *)
(* resolver process_skillset_content (URL / base64 / raw text) and the     *)
(* PDF text extractor process_pdf.                                         *)
(*                                                                         *)
(* Python strings are run-length encoded: a string is a sequence of runs   *)
(* [ch |-> c, n |-> k], the character c repeated k >= 1 times, with        *)
(* adjacent runs of different characters, so that equal strings have equal *)
(* encodings and a 5,000-character line is one run.  Recursion over a      *)
(* string is by halving, so that strings of hundreds of runs are handled.  *)
(***************************************************************************)
EXTENDS Integers, Sequences, FiniteSets

\* ------------------------------------------------------------ constants

\* function_app.py:17   if len(pdf_bytes) < 100
MIN_PDF_BYTES == 100
\* function_app.py:31   max_pages = min(total_page_count, 300)
MAX_PAGES == 300
\* function_app.py:39   if len(text) > 100000
MAX_PAGE_CHARS == 100000
\* function_app.py:91   if len(current_page) > 5000
PAGE_CHARS == 5000

\* -------------------------------------------------------------- bounds

\* Runs in a small content string.
MaxRuns == 3
\* Records in a request's values array.
MaxRecords == 2
\* Page counts 0..MaxSmallPages of small documents.
MaxSmallPages == 2
\* Page counts up to MAX_PAGES + MaxExtraPages of large documents, and line
\* counts up to MAX_PAGES + MaxExtraPages of large raw texts.
MaxExtraPages == 1

\* ------------------------------------------------------ Python values

None == [none |-> TRUE]
Some(x) == [some |-> x]
IsSome(o) == "some" \in DOMAIN o

Min(a, b) == IF a < b THEN a ELSE b

\* ------------------------------------------------------------- strings

NL == "\n"
Run(c, k) == [ch |-> c, n |-> k]
\* s + t
Cat(s, t) ==
  IF s = <<>> THEN t
  ELSE IF t = <<>> THEN s
  ELSE IF s[Len(s)].ch = t[1].ch
    THEN SubSeq(s, 1, Len(s) - 1)
           \o <<Run(t[1].ch, s[Len(s)].n + t[1].n)>>
           \o SubSeq(t, 2, Len(t))
    ELSE s \o t

RECURSIVE SumRuns(_, _, _)
SumRuns(s, lo, hi) ==
  IF lo > hi THEN 0
  ELSE IF lo = hi THEN s[lo].n
  ELSE LET mid == (lo + hi) \div 2
       IN SumRuns(s, lo, mid) + SumRuns(s, mid + 1, hi)

\* len(s)
StrLen(s) == SumRuns(s, 1, Len(s))

\* s[i], 1-indexed; "" past the end
RECURSIVE CharAt(_, _)
CharAt(s, i) ==
  IF s = <<>> THEN ""
  ELSE IF i <= s[1].n THEN s[1].ch
  ELSE CharAt(Tail(s), i - s[1].n)

\* s.startswith(prefix), prefix a sequence of characters
StartsWith(s, prefix) == \A i \in 1..Len(prefix) : CharAt(s, i) = prefix[i]

\* s[:k]
RECURSIVE Take(_, _)
Take(s, k) ==
  IF s = <<>> \/ k <= 0 THEN <<>>
  ELSE IF s[1].n >= k THEN <<Run(s[1].ch, k)>>
  ELSE <<s[1]>> \o Take(Tail(s), k - s[1].n)

\* s.split("\n"): the pieces between newlines, "" between adjacent newlines
\* and at either end.
SplitJoin(a, b) ==
  SubSeq(a, 1, Len(a) - 1) \o <<Cat(a[Len(a)], b[1])>> \o SubSeq(b, 2, Len(b))

RECURSIVE SplitRange(_, _, _)
SplitRange(s, lo, hi) ==
  IF lo > hi THEN << <<>> >>
  ELSE IF lo = hi
    THEN IF s[lo].ch = NL THEN [i \in 1..(s[lo].n + 1) |-> <<>>]
         ELSE << <<s[lo]>> >>
  ELSE LET mid == (lo + hi) \div 2
       IN SplitJoin(SplitRange(s, lo, mid), SplitRange(s, mid + 1, hi))

Split(s) == SplitRange(s, 1, Len(s))

\* "".join(parts)
RECURSIVE JoinRange(_, _, _)
JoinRange(parts, lo, hi) ==
  IF lo > hi THEN <<>>
  ELSE IF lo = hi THEN parts[lo]
  ELSE LET mid == (lo + hi) \div 2
       IN Cat(JoinRange(parts, lo, mid), JoinRange(parts, mid + 1, hi))

Join(parts) == JoinRange(parts, 1, Len(parts))

\* -------------------------------------------------------------- base64

\* The characters of the model: "a", "h", "t", "p", "s" are of the base64
\* alphabet, "=" is the pad, " " and "\n" are ASCII outside the alphabet,
\* "e'" stands for a non-ASCII character.
B64Alphabet == {"a", "h", "t", "p", "s"}
NonAscii == "e'"
PAD == "="

\* binascii.a2b_base64 without strict mode, one character at a time: the
\* position in the quad, the pads seen in a row, whether decoding stopped at
\* a complete pad sequence, and the data characters consumed.
B64Start == [q |-> 0, pads |-> 0, done |-> FALSE]

B64Char(st, c) ==
  IF st.done THEN [st |-> st, nd |-> 0]
  ELSE IF c = PAD
    THEN IF st.q >= 2
           THEN IF st.q + st.pads + 1 >= 4
                  THEN [st |-> [st EXCEPT !.done = TRUE], nd |-> 0]
                  ELSE [st |-> [st EXCEPT !.pads = st.pads + 1], nd |-> 0]
           ELSE [st |-> st, nd |-> 0]
  ELSE IF c \in B64Alphabet
    THEN [st |-> [q |-> (st.q + 1) % 4, pads |-> 0, done |-> FALSE], nd |-> 1]
  ELSE [st |-> st, nd |-> 0]

\* A run of k equal characters from state st.
RECURSIVE B64Run(_, _, _)
B64Run(st, c, k) ==
  IF k = 0 \/ st.done THEN [st |-> st, nd |-> 0]
  ELSE IF c \in B64Alphabet
    THEN [st |-> [q |-> (st.q + k) % 4, pads |-> 0, done |-> FALSE], nd |-> k]
  ELSE IF c = PAD
    THEN LET one == B64Char(st, c)
             rest == B64Run(one.st, c, Min(k - 1, 2))
         IN [st |-> rest.st, nd |-> 0]
  ELSE [st |-> st, nd |-> 0]

\* The runs lo..hi from state st: the state after and the data characters
\* consumed.
B64Sum(l, r) == [st |-> r.st, nd |-> l.nd + r.nd]

RECURSIVE B64Range(_, _, _, _)
B64After(l, s, lo, hi) ==
  IF l.nd >= 0 THEN B64Sum(l, B64Range(s, lo, hi, l.st)) ELSE l

B64Range(s, lo, hi, st) ==
  IF lo > hi THEN [st |-> st, nd |-> 0]
  ELSE IF lo = hi THEN B64Run(st, s[lo].ch, s[lo].n)
  ELSE B64After(B64Range(s, lo, (lo + hi) \div 2, st),
                s, ((lo + hi) \div 2) + 1, hi)

\* The bytes n data characters decode to.
B64Bytes(nd) == 3 * (nd \div 4) + (IF (nd % 4) >= 2 THEN (nd % 4) - 1 ELSE 0)

\* base64.b64decode(s) of a str: the decoded bytes (their number), or the
\* exception raised.
b64decode(s) ==
  IF \E i \in 1..Len(s) : s[i].ch = NonAscii
    THEN [ok |-> FALSE, len |-> 0, exc |-> "ValueError"]
  ELSE LET r == B64Range(s, 1, Len(s), B64Start)
       IN IF r.st.done \/ r.st.q = 0
            THEN [ok |-> TRUE, len |-> B64Bytes(r.nd), exc |-> ""]
            ELSE [ok |-> FALSE, len |-> 0, exc |-> "binascii.Error"]

\* --------------------------------------------------------- JSON values

\* A value json.loads can return, tagged by its field name: None, bool,
\* int, str (a run-length encoded string), list, dict (a record).
JNull == [null |-> TRUE]
JBool(b) == [bool |-> b]
JNum(k) == [num |-> k]
JStr(s) == [str |-> s]
JArr(a) == [arr |-> a]
JObj(o) == [obj |-> o]

IsNull(v) == "null" \in DOMAIN v
IsBool(v) == "bool" \in DOMAIN v
IsNum(v) == "num" \in DOMAIN v
IsStr(v) == "str" \in DOMAIN v
IsArr(v) == "arr" \in DOMAIN v
IsObj(v) == "obj" \in DOMAIN v

\* bool(v)
Truthy(v) ==
  IF IsNull(v) THEN FALSE
  ELSE IF IsBool(v) THEN v.bool
  ELSE IF IsNum(v) THEN v.num # 0
  ELSE IF IsStr(v) THEN v.str # <<>>
  ELSE IF IsArr(v) THEN v.arr # <<>>
  ELSE DOMAIN v.obj # {}

\* whether len(v) is defined
HasLen(v) == IsStr(v) \/ IsArr(v) \/ IsObj(v)

\* len(v)
PyLen(v) ==
  IF IsStr(v) THEN StrLen(v.str)
  ELSE IF IsArr(v) THEN Len(v.arr)
  ELSE Cardinality(DOMAIN v.obj)

\* type(v).__name__
TypeName(v) ==
  IF IsNull(v) THEN "NoneType"
  ELSE IF IsBool(v) THEN "bool"
  ELSE IF IsNum(v) THEN "int"
  ELSE IF IsStr(v) THEN "str"
  ELSE IF IsArr(v) THEN "list"
  ELSE "dict"

\* A message: a fixed text and the text formatted into it.
Msg(text, arg) == [text |-> text, arg |-> arg]

\* -------------------------------------------------------------- inputs

\* "http", "https", "values", "0" and the other literals of the code.
StrHttp == <<Run("h", 1), Run("t", 2), Run("p", 1)>>
StrHttps == Cat(StrHttp, <<Run("s", 1)>>)
StrValues ==
  <<Run("v", 1), Run("a", 1), Run("l", 1), Run("u", 1), Run("e", 1), Run("s", 1)>>
StrZero == <<Run("0", 1)>>

\* Strings of at most k runs of 1 or 2 characters.
BodyChars == {"a", PAD, " ", NL, NonAscii}
Tokens == {Run(c, n) : c \in BodyChars, n \in {1, 2}}
Canonical(s) == \A i \in 1..(Len(s) - 1) : s[i].ch # s[i + 1].ch
SmallStrings(k) ==
  {s \in UNION {[1..j -> Tokens] : j \in 0..k} : Canonical(s)}

\* Strings that start with "http", some of them valid base64 as well, and
\* near misses.
UrlStrings ==
  {Cat(p, t) : p \in {StrHttp, StrHttps, <<Run("h", 1), Run("t", 2)>>},
               t \in {<<>>, <<Run("a", 1)>>, <<Run("a", 4)>>, <<Run(" ", 1)>>}}

\* Base64 strings that decode to MIN_PDF_BYTES - 1, MIN_PDF_BYTES and more
\* bytes.
B64Strings ==
  { <<Run("a", 4 * (MIN_PDF_BYTES \div 3))>>,
    <<Run("a", 4 * (MIN_PDF_BYTES \div 3) + 2), Run(PAD, 2)>>,
    <<Run("a", 2), Run(" ", 1), Run("a", 4 * (MIN_PDF_BYTES \div 3) + 2)>> }

\* One or two lines of about PAGE_CHARS characters.
LineLens == {PAGE_CHARS \div 2, PAGE_CHARS - 1, PAGE_CHARS}
LinesOf(c) ==
  {Cat(<<Run(c, n), Run(NL, k)>>, t) :
     n \in LineLens, k \in {1, 2},
     t \in {<<>>} \cup {<<Run(c, m)>> : m \in LineLens}}
LineStrings == LinesOf("a") \cup LinesOf(NonAscii)

\* unit repeated k times
Repeat(unit, k) ==
  [i \in 1..(k * Len(unit)) |-> unit[((i - 1) % Len(unit)) + 1]]

\* MAX_PAGES + MaxExtraPages lines of PAGE_CHARS + 1 characters each.
ManyLines == Repeat(<<Run("a", PAGE_CHARS + 1), Run(NL, 1)>>, MAX_PAGES + MaxExtraPages)

\* "a\n" * 3000
ShortLines == Repeat(<<Run("a", 1), Run(NL, 1)>>, 3000)

BigStrings == UrlStrings \cup B64Strings \cup LineStrings \cup {ManyLines, ShortLines}

\* Values of content that are not strings.
NonStrings ==
  { JNull, JNum(0), JNum(5), JBool(TRUE), JBool(FALSE), JArr(<<>>),
    JArr(<<JNum(1)>>), JObj(<<>>), JObj([a |-> JNum(1)]) }

\* The content values process_skillset_content is called with directly,
\* and those that arrive in a request.
CallContents ==
  NonStrings \cup {JStr(s) : s \in SmallStrings(MaxRuns) \cup BigStrings}
RequestContents ==
  NonStrings \cup {JStr(s) : s \in SmallStrings(MaxRuns - 1) \cup BigStrings}

\* A record of the values array: recordId and data, each present or not.
Record(id, data) ==
  JObj([k \in (IF IsSome(id) THEN {"recordId"} ELSE {})
              \cup (IF IsSome(data) THEN {"data"} ELSE {})
          |-> IF k = "recordId" THEN id.some ELSE data.some])

RecordIds == {None, Some(JStr(<<Run("7", 1)>>))}
MalformedData == {None, Some(JNull), Some(JStr(<<Run("a", 1)>>)), Some(JObj(<<>>))}
FirstRecords ==
  {JNull, JNum(5), JStr(<<Run("a", 1)>>)}
    \cup {Record(id, data) : id \in RecordIds, data \in MalformedData}
    \cup {Record(id, Some(JObj([content |-> c]))) :
            id \in RecordIds, c \in RequestContents}

\* The records after the first.
OtherRecords ==
  { JNull,
    Record(Some(JStr(<<Run("9", 1)>>)),
           Some(JObj([content |-> JStr(<<Run(NonAscii, 1)>>)]))) }
RestOfValues == UNION {[1..j -> OtherRecords] : j \in 0..(MaxRecords - 1)}

\* Bodies of a JSON request: not JSON at all, or a JSON value.
InvalidJson == [invalid |-> TRUE]
MalformedBodies ==
  { JNull, JNum(5), JBool(TRUE), JStr(StrValues), JStr(<<Run("a", 1)>>),
    JArr(<<>>), JArr(<<JStr(StrValues)>>), JObj(<<>>),
    JObj([values |-> JArr(<<>>)]), JObj([values |-> JNull]),
    JObj([values |-> JNum(5)]), JObj([values |-> JStr(<<Run("a", 1)>>)]),
    JObj([values |-> JObj(<<>>)]), JObj([values |-> JObj([a |-> JNull])]) }
JsonBodies ==
  {InvalidJson} \cup {[json |-> v] : v \in MalformedBodies}
    \cup {[json |-> JObj([values |-> JArr(<<f>> \o r)])] :
            f \in FirstRecords, r \in RestOfValues}

\* Lengths of a body of raw bytes.
ByteLens == {0, MIN_PDF_BYTES - 1, MIN_PDF_BYTES}

JsonTypes == {"application/json", "application/json; charset=utf-8"}
OtherTypes == {"application/pdf", ""}
Requests ==
  {[ctype |-> c, body |-> b] : c \in JsonTypes, b \in JsonBodies}
    \cup {[ctype |-> c, body |-> [bytes |-> n]] : c \in OtherTypes, n \in ByteLens}

\* What the caller invokes: the HTTP trigger, or one of the two functions.
Calls ==
  {[entry |-> "split_pdf", req |-> r] : r \in Requests}
    \cup {[entry |-> "process_skillset_content", content |-> c] : c \in CallContents}
    \cup {[entry |-> "process_pdf", bytes |-> n] : n \in ByteLens}

\* ----------------------------------------------------------- documents

\* What fitz.open returns: the number of pages and, for page i (0-indexed),
\* whether load_page / get_text raises and the text get_text returns.
PageCounts ==
  (0..MaxSmallPages) \cup ((MAX_PAGES - 1)..(MAX_PAGES + MaxExtraPages))
FaultSets(n) == {{}} \cup (IF n > 0 THEN {{0}, {n - 1}, 0..(n - 1)} ELSE {})
TextKinds == {"short", "limit", "over"}

\* Page i's text: i + 1 characters, so that pages differ; the first page of
\* a "limit" document has MAX_PAGE_CHARS characters, of an "over" document
\* more.
SourceText(i, kind) ==
  IF i = 0 /\ kind = "limit" THEN <<Run("x", MAX_PAGE_CHARS)>>
  ELSE IF i = 0 /\ kind = "over" THEN <<Run("x", MAX_PAGE_CHARS + 1), Run("y", 1)>>
  ELSE <<Run("x", i + 1)>>

Document(n, faults, kind) ==
  [count |-> n,
   page |-> [i \in 0..(n - 1) |->
               [raises |-> i \in faults, text |-> SourceText(i, kind)]]]

Documents ==
  UNION {{Document(n, f, k) :
            f \in FaultSets(n), k \in (IF n = 0 THEN {"short"} ELSE TextKinds)} :
           n \in PageCounts}

\* str(e) of the exceptions of the libraries.
OpenReason == "cannot open document"
PageReason == "bad page"
FetchReason == "connection failed"

\* What fitz.open(stream=pdf_bytes, filetype="pdf") does: raise, or return
\* a document.
OpenOutcomes == {[raises |-> TRUE]} \cup {[doc |-> d] : d \in Documents}

\* What requests.get(content, timeout=30) does: raise, or return a response
\* with a status code and a body.
FetchOutcomes ==
  {[raises |-> TRUE]} \cup {[status |-> "404", len |-> 0]}
    \cup {[status |-> "200", len |-> n] : n \in ByteLens}

\* ------------------------------------------------------------ the state

VARIABLES
  call,          \* the invocation: the function entered and its argument
  pc,            \* where control is
  record_id,     \* split_pdf: record_id
  content,       \* content
  routes,        \* the branches process_skillset_content took, in order
  pdf_bytes,     \* len(pdf_bytes), once there are bytes
  pdf_calls,     \* the calls of process_pdf
  doc,           \* pdf_document, once opened
  lines,         \* the paginator: lines
  line_no,       \*   the index of the next line
  current_page,  \*   current_page
  pages,         \* pages (of the paginator, then of the function's result)
  error,         \* the error of the function's result
  response       \* the HttpResponse returned

vars ==
  <<call, pc, record_id, content, routes, pdf_bytes, pdf_calls, doc, lines,
    line_no, current_page, pages, error, response>>

Init ==
  /\ call \in Calls
  /\ pc = call.entry
  /\ record_id = None
  /\ content = IF call.entry = "process_skillset_content"
                 THEN Some(call.content) ELSE None
  /\ routes = <<>>
  /\ pdf_bytes = IF call.entry = "process_pdf" THEN Some(call.bytes) ELSE None
  /\ pdf_calls = 0
  /\ doc = None
  /\ lines = <<>>
  /\ line_no = 1
  /\ current_page = <<>>
  /\ pages = None
  /\ error = None
  /\ response = None

\* Where a function of the core returns to.
AfterCore == IF call.entry = "split_pdf" THEN "respond" ELSE "done"

\* ---------------------------------------------------------- process_pdf

\* The decimal numeral of k, kept as k marks.
Numeral(k) == <<Run("#", k)>>

\* ErrorPage with the page numbered from 0.
ErrorPage_ZeroIndexed(page_num, reason) ==
  <<Run("[Error extracting page ", 1)>> \o Numeral(page_num)
    \o <<Run(": ", 1), Run(reason, 1), Run("]", 1)>>

\* f"[Error extracting page {page_num+1}: {str(page_error)}]"
ErrorPage(page_num, reason) ==
  <<Run("[Error extracting page ", 1)>> \o Numeral(page_num + 1)
    \o <<Run(": ", 1), Run(reason, 1), Run("]", 1)>>

\* text[:100000] + "... [content truncated]" when text is longer
Truncated(text) ==
  IF StrLen(text) > MAX_PAGE_CHARS
    THEN Take(text, MAX_PAGE_CHARS) \o <<Run("... [content truncated]", 1)>>
    ELSE text

\* One turn of the loop over the pages: what is appended to pages.
ExtractPage(d, page_num) ==
  IF d.page[page_num].raises
    THEN ErrorPage(page_num, PageReason)
    ELSE Truncated(d.page[page_num].text)

\* MaxPagesOf without the cap.
MaxPagesOf_Uncapped(d) == d.count

\* max_pages = min(total_page_count, 300)
MaxPagesOf(d) == Min(d.count, MAX_PAGES)

\* ExtractPages with the pages taken from the last to the first.
ExtractPages_Reversed(d) ==
  [i \in 1..MaxPagesOf(d) |-> ExtractPage(d, MaxPagesOf(d) - i)]

\* The pages process_pdf returns for an opened document.
ExtractPages(d) == [i \in 1..MaxPagesOf(d) |-> ExtractPage(d, i - 1)]

\* process_pdf(pdf_bytes), with what fitz.open does.
process_pdf ==
  /\ pc = "process_pdf"
  /\ pdf_calls' = pdf_calls + 1
  /\ pc' = AfterCore
  /\ IF pdf_bytes.some < MIN_PDF_BYTES
       THEN /\ pages' = None
            /\ error' = Some(Msg("PDF data too small to be valid", ""))
            /\ doc' = doc
       ELSE \E o \in OpenOutcomes :
              IF "raises" \in DOMAIN o
                THEN /\ pages' = None
                     /\ error' = Some(Msg("Cannot open PDF document: ", OpenReason))
                     /\ doc' = doc
                ELSE /\ pages' = Some(ExtractPages(o.doc))
                     /\ error' = None
                     /\ doc' = Some(o.doc)
  /\ UNCHANGED <<call, record_id, content, routes, pdf_bytes, lines, line_no,
                 current_page, response>>

\* --------------------------------------------- process_skillset_content

\* isinstance(content, str) and (content.startswith("http") or
\* content.startswith("https"))
IsUrl(c) ==
  IsStr(c) /\ (StartsWith(c.str, <<"h", "t", "t", "p">>)
                 \/ StartsWith(c.str, <<"h", "t", "t", "p", "s">>))

\* Decode with validate=True: a character outside the alphabet is an error.
Decode_Validating(c) ==
  IF IsStr(c) /\ \A i \in 1..Len(c.str) : c.str[i].ch \in B64Alphabet \cup {PAD}
    THEN b64decode(c.str)
    ELSE [ok |-> FALSE, len |-> 0, exc |-> "binascii.Error"]

\* base64.b64decode(content): of a value that is no str (and no bytes) it
\* raises TypeError.
Decode(c) ==
  IF IsStr(c) THEN b64decode(c.str)
  ELSE [ok |-> FALSE, len |-> 0, exc |-> "TypeError"]

\* Classify with the base64 decode tried before the URL test.
Classify_DecodeFirst(c) ==
  IF Truthy(c) /\ ~HasLen(c) THEN "raises"
  ELSE IF Decode(c).ok THEN "base64"
  ELSE IF IsUrl(c) THEN "url"
  ELSE IF Truthy(c) /\ IsStr(c) THEN "raw_text"
  ELSE "invalid"

\* The branch process_skillset_content takes on content c.
Classify(c) ==
  IF Truthy(c) /\ ~HasLen(c) THEN "raises"
  ELSE IF IsUrl(c) THEN "url"
  ELSE IF Decode(c).ok THEN "base64"
  ELSE IF Truthy(c) /\ IsStr(c) THEN "raw_text"
  ELSE "invalid"

\* process_skillset_content(content, record_id), to its first call or its
\* return.
process_skillset_content ==
  /\ pc = "process_skillset_content"
  /\ routes' = Append(routes, Classify(content.some))
  /\ CASE Classify(content.some) = "raises" ->
            \* len(content) in the logging call raises; the outer except
            /\ pc' = AfterCore
            /\ pages' = None
            /\ error' = Some(Msg("Error processing content: object has no len(): ",
                                 TypeName(content.some)))
            /\ UNCHANGED <<pdf_bytes, lines>>
       [] Classify(content.some) = "url" ->
            /\ pc' = "requests_get"
            /\ UNCHANGED <<pages, error, pdf_bytes, lines>>
       [] Classify(content.some) = "base64" ->
            /\ pc' = "process_pdf"
            /\ pdf_bytes' = Some(Decode(content.some).len)
            /\ UNCHANGED <<pages, error, lines>>
       [] Classify(content.some) = "raw_text" ->
            /\ pc' = "paginate"
            /\ lines' = Split(content.some.str)
            /\ pages' = Some(<<>>)
            /\ UNCHANGED <<error, pdf_bytes>>
       [] Classify(content.some) = "invalid" ->
            /\ pc' = AfterCore
            /\ pages' = None
            /\ error' = Some(Msg("Invalid or empty content", ""))
            /\ UNCHANGED <<pdf_bytes, lines>>
  /\ UNCHANGED <<call, record_id, content, pdf_calls, doc, line_no,
                 current_page, response>>

\* response = requests.get(content, timeout=30) and what follows it.
requests_get ==
  /\ pc = "requests_get"
  /\ \E o \in FetchOutcomes :
       IF "raises" \in DOMAIN o
         THEN /\ pc' = AfterCore
              /\ pages' = None
              /\ error' = Some(Msg("Error downloading from URL: ", FetchReason))
              /\ pdf_bytes' = pdf_bytes
         ELSE IF o.status = "200"
           THEN /\ pc' = "process_pdf"
                /\ pdf_bytes' = Some(o.len)
                /\ UNCHANGED <<pages, error>>
           ELSE /\ pc' = AfterCore
                /\ pages' = None
                /\ error' = Some(Msg("Failed to download from URL: status code ",
                                     o.status))
                /\ pdf_bytes' = pdf_bytes
  /\ UNCHANGED <<call, record_id, content, routes, pdf_calls, doc, lines,
                 line_no, current_page, response>>

\* WithLine without the newline after the line.
WithLine_Unterminated(page, line) == Cat(page, line)

\* current_page after the line is added: current_page += line + "\n"
WithLine(page, line) == Cat(page, Cat(line, <<Run(NL, 1)>>))

\* Whether the page is closed: len(current_page) > 5000
PageFull(page) == StrLen(page) > PAGE_CHARS

\* One turn of `for line in lines`.
paginate_line ==
  /\ pc = "paginate"
  /\ line_no <= Len(lines)
  /\ line_no' = line_no + 1
  /\ IF PageFull(WithLine(current_page, lines[line_no]))
       THEN /\ pages' = Some(Append(pages.some,
                                    WithLine(current_page, lines[line_no])))
            /\ current_page' = <<>>
       ELSE /\ current_page' = WithLine(current_page, lines[line_no])
            /\ pages' = pages
  /\ UNCHANGED <<call, pc, record_id, content, routes, pdf_bytes, pdf_calls,
                 doc, lines, error, response>>

\* After the loop: the rest is a page, if there is any; return pages, None.
paginate_end ==
  /\ pc = "paginate"
  /\ line_no > Len(lines)
  /\ pc' = AfterCore
  /\ pages' = IF current_page # <<>>
                THEN Some(Append(pages.some, current_page)) ELSE pages
  /\ error' = None
  /\ UNCHANGED <<call, record_id, content, routes, pdf_bytes, pdf_calls, doc,
                 lines, line_no, current_page, response>>

\* ------------------------------------------------------------ split_pdf

\* func.HttpResponse(body, mimetype=..., status_code=...); the status code
\* is 200 and the mimetype text/plain when not given.
HttpResponse(body, mimetype, status_code) ==
  [body |-> body, mimetype |-> mimetype, status_code |-> status_code]

\* create_error_response with an empty data.pages beside the errors.
create_error_response_WithData(id, error_message) ==
  HttpResponse([values |-> <<[recordId |-> id, errors |-> <<error_message>>,
                              data |-> [pages |-> <<>>]]>>],
               "application/json", 200)

\* create_error_response(record_id, error_message)
create_error_response(id, error_message) ==
  HttpResponse([values |-> <<[recordId |-> id, errors |-> <<error_message>>]>>],
               "application/json", 200)

\* The response of lines 169-180, to a request without a values array.
MissingValuesResponse ==
  HttpResponse(
    [values |-> <<[recordId |-> JStr(StrZero),
                   errors |-> <<Msg("Invalid request format: missing 'values' array", "")>>]>>],
    "application/json", 400)

\* The response of lines 126-130, to a body that is not JSON.
InvalidJsonResponse ==
  HttpResponse(
    [values |-> <<[recordId |-> JStr(StrZero),
                   errors |-> <<Msg("Invalid JSON in request", "")>>]>>],
    "application/json", 400)

\* The response of the handler's except Exception (lines 203-219).
GeneralErrorResponse(exc) ==
  HttpResponse(
    [values |-> <<[recordId |-> JStr(StrZero),
                   errors |-> <<Msg("General function error: ", exc)>>]>>],
    "application/json", 500)

\* The response of lines 151-166.
PagesResponse(id, ps) ==
  HttpResponse([values |-> <<[recordId |-> id, data |-> [pages |-> ps]]>>],
               "application/json", 200)

\* The response of lines 195-202, to a direct upload.
DirectResponse(ps) ==
  HttpResponse(
    [pages |-> [i \in 1..Len(ps) |-> [page_number |-> i, content |-> ps[i]]]],
    "application/json", 200)

\* What the handler does next: return a response, raise into its except
\* Exception, or call process_skillset_content.
Respond(r) == [do |-> "respond", response |-> r]
Raise(exc) == [do |-> "raise", exc |-> exc]
Resolve(id, c) == [do |-> "resolve", record_id |-> id, content |-> c]

\* s contains the characters chars in a row
Contains(s, chars) ==
  \E off \in 0..(StrLen(s) - Len(chars)) :
    \A j \in 1..Len(chars) : CharAt(s, off + j) = chars[j]

\* 'values' in request_json, where `in` is defined
HasValues(js) ==
  IF IsObj(js) THEN "values" \in DOMAIN js.obj
  ELSE IF IsArr(js) THEN \E i \in 1..Len(js.arr) : js.arr[i] = JStr(StrValues)
  ELSE Contains(js.str, <<"v", "a", "l", "u", "e", "s">>)

\* First with values[-1] for values[0].
First_Last(vals) ==
  IF IsArr(vals) THEN vals.arr[Len(vals.arr)] ELSE JStr(Take(vals.str, 1))

\* values[0] of a list or a str
First(vals) == IF IsArr(vals) THEN vals.arr[1] ELSE JStr(Take(vals.str, 1))

\* Lines 134-145, on values[0].
OnRecord(first) ==
  IF ~IsObj(first) THEN Raise("object has no attribute 'get'")
  ELSE LET id == IF "recordId" \in DOMAIN first.obj
                   THEN first.obj.recordId ELSE JStr(StrZero)
       IN IF "data" \notin DOMAIN first.obj
            THEN Respond(create_error_response(id, Msg("No data field in request", "")))
          ELSE IF ~IsObj(first.obj.data)
            THEN Raise("object has no attribute 'get'")
          ELSE LET c == IF "content" \in DOMAIN first.obj.data.obj
                          THEN first.obj.data.obj.content ELSE JStr(<<>>)
               IN IF ~Truthy(c)
                    THEN Respond(create_error_response(
                                   id, Msg("No content provided in request", "")))
                    ELSE Resolve(id, c)

\* Lines 132-134, on request_json['values'].
OnValues(vals) ==
  IF ~HasLen(vals) THEN Raise("object has no len()")
  ELSE IF PyLen(vals) = 0 THEN Respond(MissingValuesResponse)
  ELSE IF IsObj(vals) THEN Raise("KeyError: 0")
  ELSE OnRecord(First(vals))

\* Lines 132-180, on request_json.
OnJson(js) ==
  IF IsNull(js) \/ IsNum(js) \/ IsBool(js)
    THEN Raise("argument is not iterable")
  ELSE IF ~HasValues(js) THEN Respond(MissingValuesResponse)
  ELSE IF ~IsObj(js) THEN Raise("indices must be integers")
  ELSE OnValues(js.obj.values)

\* 'application/json' in content_type
IsJsonType(ctype) == ctype \in JsonTypes

\* Lines 119-130: the skillset request, from its body.
OnSkillset(body) ==
  IF "invalid" \in DOMAIN body THEN Respond(InvalidJsonResponse)
  ELSE OnJson(body.json)

\* split_pdf(req), to its call of the core or its return.
split_pdf ==
  /\ pc = "split_pdf"
  /\ IF IsJsonType(call.req.ctype)
       THEN LET d == OnSkillset(call.req.body)
            IN /\ pc' = IF d.do = "resolve" THEN "process_skillset_content" ELSE "done"
               /\ response' = IF d.do = "respond" THEN Some(d.response)
                              ELSE IF d.do = "raise" THEN Some(GeneralErrorResponse(d.exc))
                              ELSE response
               /\ record_id' = IF d.do = "resolve" THEN Some(d.record_id) ELSE record_id
               /\ content' = IF d.do = "resolve" THEN Some(d.content) ELSE content
               /\ pdf_bytes' = pdf_bytes
       ELSE /\ IF call.req.body.bytes = 0
                 THEN /\ pc' = "done"
                      /\ response' = Some(HttpResponse(
                                       Msg("No PDF data received in request body.", ""),
                                       "text/plain", 400))
                      /\ pdf_bytes' = pdf_bytes
                 ELSE /\ pc' = "process_pdf"
                      /\ pdf_bytes' = Some(call.req.body.bytes)
                      /\ response' = response
            /\ UNCHANGED <<record_id, content>>
  /\ UNCHANGED <<call, routes, pdf_calls, doc, lines, line_no, current_page,
                 pages, error>>

\* split_pdf after the core returned (pages, error): lines 147-166 of a
\* skillset request, lines 191-202 of a direct upload.
split_pdf_return ==
  /\ pc = "respond"
  /\ pc' = "done"
  /\ response' =
       IF IsJsonType(call.req.ctype)
         THEN IF IsSome(error)
                THEN Some(create_error_response(record_id.some, error.some))
                ELSE Some(PagesResponse(record_id.some, pages.some))
         ELSE IF IsSome(error)
                THEN Some(HttpResponse([prefix |-> "Error: ", error |-> error.some],
                                       "text/plain", 500))
                ELSE Some(DirectResponse(pages.some))
  /\ UNCHANGED <<call, record_id, content, routes, pdf_bytes, pdf_calls, doc,
                 lines, line_no, current_page, pages, error>>

\* ---------------------------------------------------- the specification

Next ==
  \/ split_pdf
  \/ process_skillset_content
  \/ requests_get
  \/ paginate_line
  \/ paginate_end
  \/ process_pdf
  \/ split_pdf_return

Spec == Init /\ [][Next]_vars

\* ------------------------------------------------------------ properties

\* The core has returned to its caller (or the handler has answered).
Returned == pc \in {"respond", "done"}

\* The handler answered a skillset (application/json) request.
SkillsetDone ==
  pc = "done" /\ call.entry = "split_pdf" /\ IsJsonType(call.req.ctype)

\* The record of a response body of the shape {"values": [record]}.
OneRecord(r) ==
  /\ DOMAIN r.body = {"values"}
  /\ Len(r.body.values) = 1

\* C1: once the bytes opened as a document of N pages, process_pdf returns
\* no error and exactly min(N, 300) pages, and page i of the result is the
\* result for source page i: its placeholder when the page raises, its text
\* when that has at most 100,000 characters, and the first 100,000
\* characters of its text followed by more otherwise.
C1_PagesInDocumentOrder ==
  (IsSome(doc) /\ Returned) =>
    /\ error = None
    /\ IsSome(pages)
    /\ Len(pages.some) = Min(doc.some.count, MAX_PAGES)
    /\ \A i \in 1..Len(pages.some) :
         LET src == doc.some.page[i - 1]
         IN IF src.raises
              THEN pages.some[i] = ErrorPage(i - 1, PageReason)
            ELSE IF StrLen(src.text) <= MAX_PAGE_CHARS
              THEN pages.some[i] = src.text
            ELSE /\ Take(pages.some[i], MAX_PAGE_CHARS) = Take(src.text, MAX_PAGE_CHARS)
                 /\ StrLen(pages.some[i]) > MAX_PAGE_CHARS
                 /\ pages.some[i] # src.text

\* C1's case: a document of more than 300 pages was opened and extracted.
C1_Witness ==
  /\ pc = "done"
  /\ IsSome(doc)
  /\ doc.some.count > MAX_PAGES
  /\ Len(pages.some) = MAX_PAGES

\* The document d with no page raising.
WithoutFaults(d) ==
  [count |-> d.count,
   page |-> [i \in DOMAIN d.page |-> [raises |-> FALSE, text |-> d.page[i].text]]]

\* C2: once the document opened, whatever pages raise, the result has the
\* length it has when no page raises, each raising page K (1-indexed) is at
\* position K a placeholder that contains the number K, every other page is
\* what it is when no page raises, and there is no top-level error.
C2_PageFailureIsolated ==
  (IsSome(doc) /\ Returned) =>
    /\ error = None
    /\ IsSome(pages)
    /\ LET clean == ExtractPages(WithoutFaults(doc.some))
       IN /\ Len(pages.some) = Len(clean)
          /\ \A k \in 1..Len(pages.some) :
               IF doc.some.page[k - 1].raises
                 THEN /\ pages.some[k][1] = Run("[Error extracting page ", 1)
                      /\ pages.some[k][2] = Run("#", k)
                      /\ pages.some[k] # clean[k]
                 ELSE pages.some[k] = clean[k]

\* C2's case: a 300-page document whose last page raises and whose first
\* page does not.
C2_Witness ==
  /\ pc = "done"
  /\ IsSome(doc)
  /\ doc.some.count = MAX_PAGES
  /\ doc.some.page[MAX_PAGES - 1].raises
  /\ ~doc.some.page[0].raises

\* C3 as claimed: every page sequence the core returns, on every path, has
\* at most 300 elements.
C3_Original ==
  (pc = "done" /\ IsSome(pages)) => Len(pages.some) <= MAX_PAGES

\* C3, amended: a page sequence that comes from process_pdf (the direct
\* upload, the URL path, the base64 path) has at most 300 elements; the
\* raw-text path has no cap and returns at most one page per line of the
\* text.
C3_PdfPagesCapped ==
  (pc = "done" /\ IsSome(pages)) =>
    IF routes = <<"raw_text">>
      THEN Len(pages.some) <= Len(Split(content.some.str))
      ELSE /\ pdf_calls = 1
           /\ Len(pages.some) <= MAX_PAGES
           /\ (call.entry = "split_pdf" /\ ~IsJsonType(call.req.ctype)
                 => Len(response.some.body.pages) <= MAX_PAGES)

\* C3's case: the raw-text path returned more than 300 pages.
C3_Witness ==
  /\ pc = "done"
  /\ routes = <<"raw_text">>
  /\ IsSome(pages)
  /\ Len(pages.some) > MAX_PAGES

\* s is syntactically valid base64: characters of the alphabet, then at most
\* two pads, a multiple of four characters in all.
StrictBase64(s) ==
  LET padded == Len(s) > 0 /\ s[Len(s)].ch = PAD
      data == IF padded THEN Len(s) - 1 ELSE Len(s)
  IN /\ \A i \in 1..data : s[i].ch \in B64Alphabet
     /\ padded => (s[Len(s)].n <= 2 /\ data >= 1)
     /\ StrLen(s) % 4 = 0

HttpPrefixed(s) == StartsWith(s, <<"h", "t", "t", "p">>)

\* base64.b64decode(s), read from a table for the long strings of the model.
DecodedLong == {[str |-> s, res |-> b64decode(s)] : s \in BigStrings}
Decoded(s) ==
  IF s \in BigStrings THEN (CHOOSE d \in DecodedLong : d.str = s).res
  ELSE b64decode(s)

\* process_skillset_content was entered with a string and has chosen.
Classified == IsSome(content) /\ IsStr(content.some) /\ routes # <<>>

\* C4 as claimed: a string that starts with "http" goes to the URL fetch, a
\* syntactically valid base64 string that does not goes to the base64
\* decode and process_pdf, anything else goes to raw-text pagination, and
\* exactly one route is taken.
C4_Original ==
  Classified =>
    /\ Len(routes) = 1
    /\ routes[1] = IF HttpPrefixed(content.some.str) THEN "url"
                   ELSE IF StrictBase64(content.some.str) THEN "base64"
                   ELSE "raw_text"

\* C4, amended: exactly one route is taken; a string goes to the URL fetch
\* exactly when it starts with "http", valid base64 or not; a string that
\* does not goes to the base64 decode and process_pdf exactly when
\* base64.b64decode accepts it, which it does for every syntactically valid
\* base64 string and for others too (whitespace only, "aa aa"); only the
\* remaining strings go to raw-text pagination.
C4_RoutePrecedence ==
  Classified =>
    /\ Len(routes) = 1
    /\ routes[1] \in {"url", "base64", "raw_text"}
    /\ routes[1] = "url" <=> HttpPrefixed(content.some.str)
    /\ (~HttpPrefixed(content.some.str) /\ StrictBase64(content.some.str))
         => routes[1] = "base64"
    /\ LET decoded == Decoded(content.some.str)
       IN /\ routes[1] = "base64" =>
               /\ decoded.ok
               /\ pc = "process_pdf" \/ pdf_calls = 1
               /\ pdf_bytes = Some(decoded.len)
          /\ routes[1] = "raw_text" =>
               /\ ~decoded.ok
               /\ pdf_calls = 0
               /\ pdf_bytes = None
    /\ (routes[1] = "url" /\ pc = "requests_get") => pdf_bytes = None

\* C4's case: "http" followed by "aaaa", which is valid base64, went to the
\* URL fetch.
C4_Witness ==
  /\ IsSome(content)
  /\ content.some = JStr(Cat(StrHttp, <<Run("a", 4)>>))
  /\ StrictBase64(content.some.str)
  /\ routes = <<"url">>
  /\ pc = "done"

\* process_skillset_content returned pages and no error.
Resolved == routes # <<>> /\ error = None /\ IsSome(pages)

\* C5: a skillset request is always answered with a JSON body of exactly
\* one values record: on every failure (a body that is not JSON, no values
\* array, no data, no content, an error of process_skillset_content, an
\* exception) the record is {recordId, errors} with exactly one message and
\* no data; only when process_skillset_content returned pages is it
\* {recordId, data: {pages}} with those pages and no errors.
C5_EnvelopeShape ==
  SkillsetDone =>
    /\ response.some.mimetype = "application/json"
    /\ OneRecord(response.some)
    /\ LET rec == response.some.body.values[1]
       IN IF Resolved
            THEN /\ DOMAIN rec = {"recordId", "data"}
                 /\ DOMAIN rec.data = {"pages"}
                 /\ rec.data.pages = pages.some
                 /\ response.some.status_code = 200
            ELSE /\ DOMAIN rec = {"recordId", "errors"}
                 /\ Len(rec.errors) = 1
                 /\ IsSome(error) => rec.errors[1] = error.some

\* C5's case: an exception in the handler was answered by its except
\* Exception.
C5_Witness ==
  /\ SkillsetDone
  /\ response.some.status_code = 500
  /\ response.some.body.values[1].errors[1].text = "General function error: "

\* The JSON value has no values array.
NoValuesArray(js) ==
  ~(IsObj(js) /\ "values" \in DOMAIN js.obj /\ IsArr(js.obj.values))

\* C6 as claimed: a skillset request whose body is JSON of any type without
\* a values array is answered 400 with the body
\* {"values": [{"recordId": "0", "errors": [...]}]}.
C6_Original ==
  (SkillsetDone /\ "json" \in DOMAIN call.req.body
     /\ NoValuesArray(call.req.body.json)) =>
    /\ response.some.status_code = 400
    /\ OneRecord(response.some)
    /\ DOMAIN response.some.body.values[1] = {"recordId", "errors"}
    /\ response.some.body.values[1].recordId = JStr(StrZero)

\* The raw-text path has returned its pages.
RawTextDone == routes = <<"raw_text">> /\ Returned

\* Every page ends with a newline.
WholeLines(ps) ==
  \A i \in 1..Len(ps) : ps[i] # <<>> /\ ps[i][Len(ps[i])].ch = NL

\* s ends with a newline.
EndsWithNewline(s) == s # <<>> /\ s[Len(s)].ch = NL

\* C7 as claimed: "a\n" * 3000 reaches the raw-text paginator; every page
\* it emits is a concatenation of whole lines, the pages concatenated are
\* the input exactly, and more than 5,000 characters of short lines give at
\* least 2 pages.
C7_Original ==
  /\ (IsSome(content) /\ content.some = JStr(ShortLines) /\ routes # <<>>)
       => routes = <<"raw_text">>
  /\ RawTextDone =>
       /\ WholeLines(pages.some)
       /\ Join(pages.some) = content.some.str
       /\ (StrLen(content.some.str) > PAGE_CHARS
             /\ \A i \in 1..Len(lines) : StrLen(lines[i]) < PAGE_CHARS)
            => Len(pages.some) >= 2

\* C7, amended: every page the raw-text paginator emits is a concatenation
\* of whole lines, each ended by a newline, and the pages concatenated are
\* the input followed by one more newline (the last line is ended too); an
\* input of more than 5,000 characters gives at least 1 page, and at least 2
\* when it ends with a newline; "a\n" * 3000 does not reach the paginator:
\* it decodes as base64.
C7_LinesKept ==
  /\ (IsSome(content) /\ content.some = JStr(ShortLines) /\ routes # <<>>)
       => routes = <<"base64">>
  /\ RawTextDone =>
       /\ WholeLines(pages.some)
       /\ Join(pages.some) = Cat(content.some.str, <<Run(NL, 1)>>)
       /\ Len(pages.some) >= 1
       /\ (StrLen(content.some.str) > PAGE_CHARS
             /\ EndsWithNewline(content.some.str))
            => Len(pages.some) >= 2

\* C7's case: the paginator closed a page and went on to another.
C7_Witness ==
  /\ RawTextDone
  /\ pc = "done"
  /\ Len(pages.some) = 2
  /\ Len(lines) = 3

\* content is a string of spaces and newlines only (or empty).
BlankContent ==
  /\ IsSome(content)
  /\ IsStr(content.some)
  /\ \A i \in 1..Len(content.some.str) : content.some.str[i].ch \in {" ", NL}

\* C8 as claimed: an empty or whitespace-only text gives zero pages and no
\* error.
C8_Original ==
  (BlankContent /\ routes # <<>> /\ Returned) =>
    /\ pages = Some(<<>>)
    /\ error = None

\* C8, amended: an empty or whitespace-only content does not reach the
\* raw-text paginator: base64.b64decode accepts it as zero bytes, and
\* process_skillset_content returns no pages and the error "PDF data too
\* small to be valid"; the paginator itself never gives zero pages.
C8_BlankIsDecoded ==
  /\ (BlankContent /\ routes # <<>>) =>
       /\ routes = <<"base64">>
       /\ pdf_bytes = Some(0)
       /\ Returned =>
            /\ pages = None
            /\ error = Some(Msg("PDF data too small to be valid", ""))
  /\ RawTextDone => (error = None /\ Len(pages.some) >= 1)

\* C8's case: a content of spaces and newlines was resolved.
C8_Witness ==
  /\ BlankContent
  /\ Len(content.some.str) = 3
  /\ pc = "done"
  /\ IsSome(error)

\* C9 as claimed: for a content that is the empty string or no string,
\* process_skillset_content returns no pages and the error "Invalid or
\* empty content", and does not call process_pdf.
C9_Original ==
  (call.entry = "process_skillset_content" /\ pc = "done"
     /\ (~IsStr(call.content) \/ call.content = JStr(<<>>))) =>
    /\ pages = None
    /\ error = Some(Msg("Invalid or empty content", ""))
    /\ pdf_calls = 0

\* The request is a skillset request with a values array of k >= 1 records.
HasRecords ==
  /\ call.entry = "split_pdf"
  /\ IsJsonType(call.req.ctype)
  /\ "json" \in DOMAIN call.req.body
  /\ IsObj(call.req.body.json)
  /\ "values" \in DOMAIN call.req.body.json.obj
  /\ IsArr(call.req.body.json.obj.values)
  /\ Len(call.req.body.json.obj.values.arr) >= 1

FirstRecord == call.req.body.json.obj.values.arr[1]

\* The request with its first record alone.
FirstAlone == JObj([values |-> JArr(<<FirstRecord>>)])

\* The handler does with the request what it does with its first record
\* alone, and answers from what the core returned for that record.
OnlyFirstRead ==
  /\ OnJson(call.req.body.json) = OnJson(FirstAlone)
  /\ routes # <<>> =>
       /\ content = Some(FirstRecord.obj.data.obj.content)
       /\ response.some =
            IF IsSome(error)
              THEN create_error_response(record_id.some, error.some)
              ELSE PagesResponse(record_id.some, pages.some)

\* C10 as claimed: the answer to a request of k >= 1 records has exactly
\* one values entry, with the recordId of values[0], or "0" when values[0]
\* has none, and is the answer to values[0] alone.
C10_Original ==
  (HasRecords /\ pc = "done") =>
    /\ OneRecord(response.some)
    /\ response.some.body.values[1].recordId =
         IF IsObj(FirstRecord) /\ "recordId" \in DOMAIN FirstRecord.obj
           THEN FirstRecord.obj.recordId ELSE JStr(StrZero)
    /\ OnlyFirstRead

\* values[0] makes the handler raise: it is no object, or its data is none.
FirstRaises ==
  \/ ~IsObj(FirstRecord)
  \/ "data" \in DOMAIN FirstRecord.obj /\ ~IsObj(FirstRecord.obj.data)

\* C10, amended: the answer to a request of k >= 1 records has exactly one
\* values entry and is the answer to values[0] alone; its recordId is that
\* of values[0], or "0" when values[0] has none, and also "0" (with status
\* 500) when values[0] is no object or its data field is no object, which
\* the handler's except Exception answers.
C10_FirstRecordOnly ==
  (HasRecords /\ pc = "done") =>
    /\ OneRecord(response.some)
    /\ response.some.body.values[1].recordId =
         IF ~FirstRaises /\ "recordId" \in DOMAIN FirstRecord.obj
           THEN FirstRecord.obj.recordId ELSE JStr(StrZero)
    /\ FirstRaises <=> response.some.status_code = 500
    /\ OnlyFirstRead

\* C10's case: a request of two records, the second with its own recordId
\* and content, was answered with the pages and the recordId of the first.
C10_Witness ==
  /\ HasRecords
  /\ pc = "done"
  /\ Len(call.req.body.json.obj.values.arr) = 2
  /\ IsObj(call.req.body.json.obj.values.arr[2])
  /\ response.some.body.values[1].recordId = JStr(<<Run("7", 1)>>)
  /\ "data" \in DOMAIN response.some.body.values[1]
  /\ Len(response.some.body.values[1].data.pages) = 2

====
